---- MODULE Spec2Model ----
(***************************************************************************)
(* Order workflow of the food-delivery backend (src/main.py): carts,       *)
(* orders and couriers kept in a relational store, one request handler per *)
(* action.  Every handler runs on its own connection and commits once at   *)
(* its end, so a handler is one atomic step of the store.  SpecSteps takes *)
(* create_order apart into its statements, served by two connections.      *)
(*                                                                         *)
(* Prices are REAL columns in the source; the model keeps them in cents    *)
(* (12.99 -> 1299) so that sums are exact integers.                        *)
(***************************************************************************)
EXTENDS Integers, Sequences, FiniteSets, TLC

VARIABLES
    customers,   \* table customers:  id -> [name, email]
    menu_items,  \* table menu_items: id -> [restaurant_id, price, is_available]
    couriers,    \* table couriers:   id -> status
    carts,       \* table carts:      customer_id -> list of [menu_item_id, quantity]
    orders,      \* table orders:     sequence of order rows, the index is the id
    last,        \* the request served last: handler, values read, response
    inflight     \* connection -> position and locals of the create_order it serves

vars == <<customers, menu_items, couriers, carts, orders, last, inflight>>

\* ---------------------------------------------------------------- bounds

\* orders the store may hold
MaxOrders == 2
\* lines one cart may hold
MaxCartLen == 2

\* ------------------------------------------------------- enums and values

\* Python None / SQL NULL
None == "None"

OrderStatus ==
    {"pending", "confirmed", "cooking", "ready_for_delivery", "on_way",
     "delivered", "cancelled"}

CourierStatus == {"available", "busy", "offline"}

\* truthiness of an Optional[str]: None and the empty string are falsy
Truthy(x) == x # None /\ x # ""

\* ------------------------------------------------------------- test data

TestCustomers ==
    ("c1" :> [name |-> "John Doe", email |-> "john@example.com"]) @@
    ("c2" :> [name |-> "Jane Smith", email |-> "jane@example.com"])

TestMenuItems ==
    ("m1" :> [restaurant_id |-> "r1", price |-> 1299, is_available |-> TRUE]) @@
    ("m2" :> [restaurant_id |-> "r1", price |-> 1499, is_available |-> TRUE]) @@
    ("m3" :> [restaurant_id |-> "r2", price |-> 899, is_available |-> TRUE]) @@
    ("m4" :> [restaurant_id |-> "r2", price |-> 699, is_available |-> TRUE])

TestCouriers == ("courier1" :> "available") @@ ("courier2" :> "available")

\* ------------------------------------------------------------- responses

HTTPException(status_code, detail) ==
    [status_code |-> status_code, detail |-> detail]

\* the handler reached its return statement: nothing was raised
NoException == [status_code |-> 200, detail |-> "OK"]

\* "with get_db_connection() as conn": an exception raised in the body is thrown
\* into the context manager at its yield; "except Exception" catches it (the
\* handler's own HTTPException included) and raises a 500 in its place.
get_db_connection(raised) ==
    IF raised = NoException
    THEN NoException
    ELSE HTTPException(500, "Database connection error")

Returned(raised) == raised = NoException

\* a response that carries no customer record
NoBody == [id |-> None, name |-> None, email |-> None]

\* The record of a served request: the handler, the order it wrote or read, the
\* cart lines it loaded, the courier_id and the status it read from the order's
\* row, the customer record it returned, what the handler raised and what the
\* client received.
Served(op, order_id, cart_items, row_courier_id, raised) ==
    [op |-> op, order_id |-> order_id, cart_items |-> cart_items,
     row_courier_id |-> row_courier_id,
     row_status |-> None,
     body |-> NoBody,
     raised |-> raised.detail,
     status_code |-> get_db_connection(raised).status_code,
     detail |-> get_db_connection(raised).detail]

\* ------------------------------------------------------------ store rows

\* UpdateCourier without its WHERE clause
UpdateEveryCourier(table, courier_id, status) ==
    [k \in DOMAIN table |-> status]

\* UPDATE couriers SET status = ? WHERE id = ?
UpdateCourier(table, courier_id, status) ==
    [k \in DOMAIN table |-> IF k = courier_id THEN status ELSE table[k]]

\* DeleteCart without its WHERE clause
DeleteEveryCart(table, customer_id) ==
    [c \in {} |-> <<>>]

\* DELETE FROM carts WHERE customer_id = ?
DeleteCart(table, customer_id) ==
    [c \in DOMAIN table \ {customer_id} |-> table[c]]

\* INSERT INTO carts / UPDATE carts SET items = ? WHERE customer_id = ?
PutCart(table, customer_id, items) ==
    [c \in DOMAIN table \cup {customer_id} |->
        IF c = customer_id THEN items ELSE table[c]]

\* ------------------------------------------------------------------ init

\* the locals of create_order's loop before its first pass
LoopStart ==
    [restaurant_id |-> None, total_amount |-> 0, order_items |-> <<>>, raised |-> FALSE]

\* "with get_db_connection() as conn": the connections of two requests served
\* at the same time
Connections == {"conn1", "conn2"}

\* a connection that serves no request yet
Idle ==
    [pc |-> "idle", customer_id |-> None, delivery_address |-> None,
     cart_items |-> <<>>, loop |-> LoopStart, available_courier |-> None,
     order_id |-> 0]

Init ==
    /\ customers = TestCustomers
    /\ menu_items = TestMenuItems
    /\ couriers = TestCouriers
    /\ carts = [c \in {} |-> <<>>]
    /\ orders = <<>>
    /\ last = Served("startup", 0, <<>>, None, NoException)
    /\ inflight = [conn \in Connections |-> Idle]

\* ------------------------------------------------------------- customers

\* the Customer model, as far as name and email go
Customer(id, name, email) == [id |-> id, name |-> name, email |-> email]

\* CustomerRow with name and email in each other's column
CustomerRowSwapped(customer) == [name |-> customer.email, email |-> customer.name]

\* INSERT INTO customers (id, name, email, ...) VALUES (?, ?, ?, ...): the
\* columns written under the key customer.id
CustomerRow(customer) == [name |-> customer.name, email |-> customer.email]

\* sqlite3.IntegrityError: id is the PRIMARY KEY and email is UNIQUE
IntegrityError(customer) ==
    \/ customer.id \in DOMAIN customers
    \/ \E c \in DOMAIN customers : customers[c].email = customer.email

create_customer(customer) ==
    LET raised ==
            IF IntegrityError(customer)
            THEN HTTPException(400, "Customer already exists")
            ELSE NoException
    IN  /\ customers' = IF Returned(raised)
                        THEN customers @@ (customer.id :> CustomerRow(customer))
                        ELSE customers
        /\ last' = [Served("create_customer", 0, <<>>, None, raised) EXCEPT
                      !.body = IF Returned(raised) THEN customer ELSE NoBody]
        /\ UNCHANGED <<inflight, menu_items, couriers, carts, orders>>

get_customer(customer_id) ==
    LET raised ==
            IF customer_id \notin DOMAIN customers
            THEN HTTPException(404, "Customer not found")
            ELSE NoException
    IN  /\ last' = [Served("get_customer", 0, <<>>, None, raised) EXCEPT
                      !.body = IF Returned(raised)
                               THEN Customer(customer_id, customers[customer_id].name,
                                             customers[customer_id].email)
                               ELSE NoBody]
        /\ UNCHANGED <<inflight, customers, menu_items, couriers, carts, orders>>

\* ------------------------------------------------------------------ cart

CartItem(menu_item_id, quantity) ==
    [menu_item_id |-> menu_item_id, quantity |-> quantity]

\* SELECT * FROM menu_items WHERE id = ? AND is_available = 1
AvailableMenuItem(menu_item_id) ==
    /\ menu_item_id \in DOMAIN menu_items
    /\ menu_items[menu_item_id].is_available

\* add_to_cart without its SELECT on customers
add_to_cart_of_anyone(customer_id, menu_item_id, quantity) ==
    LET current_items ==
            IF customer_id \in DOMAIN carts THEN carts[customer_id] ELSE <<>>
        raised ==
            IF ~AvailableMenuItem(menu_item_id)
            THEN HTTPException(404, "Menu item not found")
            ELSE NoException
    IN  /\ carts' =
              IF Returned(raised)
              THEN PutCart(carts, customer_id,
                           Append(current_items, CartItem(menu_item_id, quantity)))
              ELSE carts
        /\ last' = Served("add_to_cart", 0, <<>>, None, raised)
        /\ UNCHANGED <<inflight, customers, menu_items, couriers, orders>>

add_to_cart(customer_id, menu_item_id, quantity) ==
    LET current_items ==
            IF customer_id \in DOMAIN carts THEN carts[customer_id] ELSE <<>>
        raised ==
            IF customer_id \notin DOMAIN customers
            THEN HTTPException(404, "Customer not found")
            ELSE IF ~AvailableMenuItem(menu_item_id)
            THEN HTTPException(404, "Menu item not found")
            ELSE NoException
    IN  /\ carts' =
              IF Returned(raised)
              THEN PutCart(carts, customer_id,
                           Append(current_items, CartItem(menu_item_id, quantity)))
              ELSE carts
        /\ last' = Served("add_to_cart", 0, <<>>, None, raised)
        /\ UNCHANGED <<inflight, customers, menu_items, couriers, orders>>

clear_cart(customer_id) ==
    LET raised ==
            IF customer_id \notin DOMAIN customers
            THEN HTTPException(404, "Customer not found")
            ELSE NoException
    IN  /\ carts' = IF Returned(raised) THEN DeleteCart(carts, customer_id) ELSE carts
        /\ last' = Served("clear_cart", 0, <<>>, None, raised)
        /\ UNCHANGED <<inflight, customers, menu_items, couriers, orders>>

\* No endpoint writes menu_items; rows leave the table only by a statement
\* run on the store itself, as the test suite's tearDown does.
DeleteMenuItem(menu_item_id) ==
    /\ menu_item_id \in DOMAIN menu_items
    /\ menu_items' = [m \in DOMAIN menu_items \ {menu_item_id} |-> menu_items[m]]
    /\ last' = Served("DeleteMenuItem", 0, <<>>, None, NoException)
    /\ UNCHANGED <<inflight, customers, couriers, carts, orders>>

\* Likewise a price changes only by a statement run on the store itself:
\* UPDATE menu_items SET price = ? WHERE id = ?
UpdateMenuPrice(menu_item_id, price) ==
    /\ menu_item_id \in DOMAIN menu_items
    /\ menu_items[menu_item_id].price # price
    /\ menu_items' = [menu_items EXCEPT ![menu_item_id].price = price]
    /\ last' = Served("UpdateMenuPrice", 0, <<>>, None, NoException)
    /\ UNCHANGED <<inflight, customers, couriers, carts, orders>>

\* ---------------------------------------------------------------- orders

\* ItemTotal that forgets the quantity
ItemTotalOfOne(menu_item, item) == menu_item.price

\* item_total = menu_item.price * item['quantity']
ItemTotal(menu_item, item) == menu_item.price * item.quantity

\* order_items.append({"menu_item": ..., "quantity": ..., "item_total": ...})
OrderItem(menu_item_id, menu_item, item) ==
    [menu_item |-> [id |-> menu_item_id,
                    restaurant_id |-> menu_item.restaurant_id,
                    price |-> menu_item.price],
     quantity |-> item.quantity,
     item_total |-> ItemTotal(menu_item, item)]

\* SELECT * FROM menu_items WHERE id = ?  (a row or nothing)
MenuRowExists(menu_item_id) == menu_item_id \in DOMAIN menu_items

\* ForCartItems without the comparison of the line's restaurant with the first one
RECURSIVE ForCartItemsOfAnyRestaurant(_, _)
ForCartItemsOfAnyRestaurant(cart_items, acc) ==
    IF cart_items = <<>>
    THEN acc
    ELSE LET item == Head(cart_items) IN
         IF ~MenuRowExists(item.menu_item_id)
         THEN ForCartItemsOfAnyRestaurant(Tail(cart_items), acc)
         ELSE LET menu_item == menu_items[item.menu_item_id] IN
              ForCartItemsOfAnyRestaurant(Tail(cart_items),
                 [restaurant_id |-> IF Truthy(acc.restaurant_id)
                                    THEN acc.restaurant_id
                                    ELSE menu_item.restaurant_id,
                  total_amount |-> acc.total_amount + ItemTotal(menu_item, item),
                  order_items |-> Append(acc.order_items,
                                     OrderItem(item.menu_item_id, menu_item, item)),
                  raised |-> FALSE])

\* The for loop of create_order over the cart's lines; acc holds the loop's
\* locals and raised, set when the loop leaves by the mixed-restaurant raise.
RECURSIVE ForCartItems(_, _)
ForCartItems(cart_items, acc) ==
    IF cart_items = <<>> \/ acc.raised
    THEN acc
    ELSE LET item == Head(cart_items) IN
         IF ~MenuRowExists(item.menu_item_id)
         THEN ForCartItems(Tail(cart_items), acc)
         ELSE LET menu_item == menu_items[item.menu_item_id] IN
              IF ~Truthy(acc.restaurant_id)
              THEN ForCartItems(Tail(cart_items),
                     [restaurant_id |-> menu_item.restaurant_id,
                      total_amount |-> acc.total_amount + ItemTotal(menu_item, item),
                      order_items |-> Append(acc.order_items,
                                         OrderItem(item.menu_item_id, menu_item, item)),
                      raised |-> FALSE])
              ELSE IF menu_item.restaurant_id # acc.restaurant_id
              THEN [acc EXCEPT !.raised = TRUE]
              ELSE ForCartItems(Tail(cart_items),
                     [acc EXCEPT
                        !.total_amount = @ + ItemTotal(menu_item, item),
                        !.order_items = Append(@,
                                         OrderItem(item.menu_item_id, menu_item, item))])

\* SELECT * FROM couriers WHERE status = 'available' LIMIT 1: the statement has
\* no ORDER BY, so any available row may be the one returned.
AvailableCouriers == {k \in DOMAIN couriers : couriers[k] = "available"}

Order(customer_id, restaurant_id, courier_id, items, total_amount, delivery_address) ==
    [customer_id |-> customer_id, restaurant_id |-> restaurant_id,
     courier_id |-> courier_id, items |-> items, total_amount |-> total_amount,
     status |-> "pending", delivery_address |-> delivery_address]

\* MarkBusy that never writes the courier row
MarkBusySkipped(available_courier) == couriers

\* the couriers table after "if available_courier: UPDATE couriers SET status = busy"
MarkBusy(available_courier) ==
    IF available_courier # None
    THEN UpdateCourier(couriers, available_courier, "busy")
    ELSE couriers

create_order(customer_id, delivery_address) ==
    \* cart_row['items'] is the JSON text of a list, never the empty string
    LET has_cart == customer_id \in DOMAIN carts
        cart_items == IF has_cart THEN carts[customer_id] ELSE <<>>
        loop == ForCartItems(cart_items, LoopStart)
        raised ==
            IF ~has_cart
            THEN HTTPException(400, "Cart is empty")
            ELSE IF loop.raised
            THEN HTTPException(400, "All items must be from the same restaurant")
            ELSE IF ~Truthy(loop.restaurant_id)
            THEN HTTPException(400, "No valid items in cart")
            ELSE NoException
    IN  IF Returned(raised)
        THEN /\ Len(orders) < MaxOrders
             /\ \E available_courier \in
                    IF AvailableCouriers = {} THEN {None} ELSE AvailableCouriers :
                  /\ orders' = Append(orders,
                                  Order(customer_id, loop.restaurant_id, available_courier,
                                        loop.order_items, loop.total_amount,
                                        delivery_address))
                  /\ couriers' = MarkBusy(available_courier)
             /\ carts' = DeleteCart(carts, customer_id)
             /\ last' = Served("create_order", Len(orders) + 1, cart_items, None, raised)
             /\ UNCHANGED <<inflight, customers, menu_items>>
        ELSE /\ last' = Served("create_order", 0, cart_items, None, raised)
             /\ UNCHANGED <<inflight, customers, menu_items, couriers, carts, orders>>

\* SELECT * FROM orders WHERE id = ?  (a row or nothing)
OrderExists(order_id) == order_id \in 1..Len(orders)

\* SetOrderStatus without its WHERE clause
SetEveryOrderStatus(order_id, new_status) ==
    [o \in 1..Len(orders) |-> [orders[o] EXCEPT !.status = new_status]]

\* SetOrderStatus that leaves a delivered or cancelled order as it is
SetOrderStatusUnlessTerminal(order_id, new_status) ==
    IF orders[order_id].status \in {"delivered", "cancelled"}
    THEN orders
    ELSE [orders EXCEPT ![order_id].status = new_status]

\* UPDATE orders SET status = ? WHERE id = ?
SetOrderStatus(order_id, new_status) ==
    [orders EXCEPT ![order_id].status = new_status]

\* Releases that also fires on cancelled
ReleasesOnTerminal(new_status, row_courier_id) ==
    new_status \in {"delivered", "cancelled"} /\ Truthy(row_courier_id)

\* "if new_status == DELIVERED and row['courier_id']": the courier is released
Releases(new_status, row_courier_id) ==
    new_status = "delivered" /\ Truthy(row_courier_id)

update_order_status(order_id, new_status) ==
    IF ~OrderExists(order_id)
    THEN /\ last' = Served("update_order_status", 0, <<>>, None,
                           HTTPException(404, "Order not found"))
         /\ UNCHANGED <<inflight, customers, menu_items, couriers, carts, orders>>
    ELSE LET row == orders[order_id] IN
         /\ orders' = SetOrderStatus(order_id, new_status)
         /\ couriers' =
               IF Releases(new_status, row.courier_id)
               THEN UpdateCourier(couriers, row.courier_id, "available")
               ELSE couriers
         /\ last' = [Served("update_order_status", order_id, <<>>, row.courier_id,
                            NoException) EXCEPT !.row_status = row.status]
         /\ UNCHANGED <<inflight, customers, menu_items, carts>>

\* "if courier.status != CourierStatus.AVAILABLE: raise"
NotAvailable(courier_id) == couriers[courier_id] # "available"

\* ReleasePrevious that leaves the previous courier as it is
ReleasePreviousSkipped(row_courier_id) == couriers

\* "if order_row['courier_id']: UPDATE couriers SET status = available"
ReleasePrevious(row_courier_id) ==
    IF Truthy(row_courier_id)
    THEN UpdateCourier(couriers, row_courier_id, "available")
    ELSE couriers

assign_courier_to_order(order_id, courier_id) ==
    LET raised ==
            IF ~OrderExists(order_id)
            THEN HTTPException(404, "Order not found")
            ELSE IF courier_id \notin DOMAIN couriers
            THEN HTTPException(404, "Courier not found")
            ELSE IF NotAvailable(courier_id)
            THEN HTTPException(400, "Courier is not available")
            ELSE NoException
    IN  IF Returned(raised)
        THEN LET order_row == orders[order_id] IN
             /\ orders' = [orders EXCEPT ![order_id].courier_id = courier_id]
             /\ couriers' = UpdateCourier(ReleasePrevious(order_row.courier_id),
                                          courier_id, "busy")
             /\ last' = Served("assign_courier_to_order", order_id, <<>>,
                               order_row.courier_id, raised)
             /\ UNCHANGED <<inflight, customers, menu_items, carts>>
        ELSE /\ last' = Served("assign_courier_to_order", 0, <<>>, None, raised)
             /\ UNCHANGED <<inflight, customers, menu_items, couriers, carts, orders>>

\* ------------------------------------- create_order, statement by statement

\* where a connection is between two requests
Resting == {"idle", "committed", "failed", "refused"}

\* where a connection holds writes it has not committed, and with them the
\* store's write lock
Writing == {"inserted", "courier_updated", "cart_deleted"}

\* another connection holds the write lock
Locked(conn) == \E other \in Connections \ {conn} : inflight[other].pc \in Writing

\* no connection holds the write lock: a handler that runs as one step can write
NoWriter == \A conn \in Connections : inflight[conn].pc \notin Writing

\* an exception of the store or of the process, raised inside the with block
Exception(detail) == [status_code |-> 0, detail |-> detail]

\* cursor.execute("SELECT * FROM carts WHERE customer_id = ?") on a fresh connection
SelectCart(conn, customer_id, delivery_address) ==
    /\ inflight[conn].pc \in Resting
    /\ IF customer_id \notin DOMAIN carts
       THEN /\ inflight' = [inflight EXCEPT ![conn] =
                               [Idle EXCEPT !.pc = "refused",
                                            !.customer_id = customer_id]]
            /\ last' = Served("create_order", 0, <<>>, None,
                              HTTPException(400, "Cart is empty"))
       ELSE /\ inflight' = [inflight EXCEPT ![conn] =
                               [Idle EXCEPT !.pc = "cart_read",
                                            !.customer_id = customer_id,
                                            !.delivery_address = delivery_address,
                                            !.cart_items = carts[customer_id]]]
            /\ UNCHANGED last
    /\ UNCHANGED <<customers, menu_items, couriers, carts, orders>>

\* the for loop with its SELECTs on menu_items, and the checks around it
SelectMenuItems(conn) ==
    LET request == inflight[conn]
        loop == ForCartItems(request.cart_items, LoopStart)
        raised ==
            IF loop.raised
            THEN HTTPException(400, "All items must be from the same restaurant")
            ELSE IF ~Truthy(loop.restaurant_id)
            THEN HTTPException(400, "No valid items in cart")
            ELSE NoException
    IN  /\ request.pc = "cart_read"
        /\ IF Returned(raised)
           THEN /\ inflight' = [inflight EXCEPT ![conn].pc = "items_read",
                                                ![conn].loop = loop]
                /\ UNCHANGED last
           ELSE /\ inflight' = [inflight EXCEPT ![conn].pc = "refused"]
                /\ last' = Served("create_order", 0, request.cart_items, None, raised)
        /\ UNCHANGED <<customers, menu_items, couriers, carts, orders>>

\* cursor.execute("SELECT * FROM couriers WHERE status = 'available' LIMIT 1")
SelectCourier(conn) ==
    /\ inflight[conn].pc = "items_read"
    /\ \E available_courier \in
           IF AvailableCouriers = {} THEN {None} ELSE AvailableCouriers :
         inflight' = [inflight EXCEPT ![conn].pc = "courier_read",
                                      ![conn].available_courier = available_courier]
    /\ UNCHANGED <<customers, menu_items, couriers, carts, orders, last>>

\* INSERT INTO orders: the connection's first write opens its transaction and
\* takes the write lock.  order_id stands for the request's fresh uuid: the
\* index the row gets in orders.
InsertOrder(conn) ==
    /\ inflight[conn].pc = "courier_read"
    /\ ~Locked(conn)
    /\ Len(orders) < MaxOrders
    /\ inflight' = [inflight EXCEPT ![conn].pc = "inserted",
                                    ![conn].order_id = Len(orders) + 1]
    /\ UNCHANGED <<customers, menu_items, couriers, carts, orders, last>>

\* the write lock is not released within the connection's timeout:
\* sqlite3.OperationalError, database is locked
DatabaseLocked(conn) ==
    /\ inflight[conn].pc = "courier_read"
    /\ Locked(conn)
    /\ inflight' = [inflight EXCEPT ![conn].pc = "failed"]
    /\ last' = Served("create_order", 0, inflight[conn].cart_items, None,
                      Exception("database is locked"))
    /\ UNCHANGED <<customers, menu_items, couriers, carts, orders>>

\* "if available_courier: UPDATE couriers SET status = busy WHERE id = ?"
UpdateCourierRow(conn) ==
    /\ inflight[conn].pc = "inserted"
    /\ inflight' = [inflight EXCEPT ![conn].pc = "courier_updated"]
    /\ UNCHANGED <<customers, menu_items, couriers, carts, orders, last>>

\* DELETE FROM carts WHERE customer_id = ?
DeleteCartRow(conn) ==
    /\ inflight[conn].pc = "courier_updated"
    /\ inflight' = [inflight EXCEPT ![conn].pc = "cart_deleted"]
    /\ UNCHANGED <<customers, menu_items, couriers, carts, orders, last>>

\* InsertedCourier that writes the courier only if it is available at the write
InsertedCourierIfAvailable(available_courier) ==
    IF available_courier \in AvailableCouriers THEN available_courier ELSE None

\* "available_courier.id if available_courier else None": the courier_id of
\* the INSERT is the row read before, whatever has happened to it since
InsertedCourier(available_courier) == available_courier

\* the tables as the connection sees them: the committed rows and its own
\* uncommitted writes
Uncommitted(conn) ==
    LET request == inflight[conn] IN
    [orders |-> IF request.pc \in Writing
                THEN Append(orders,
                        Order(request.customer_id, request.loop.restaurant_id,
                              InsertedCourier(request.available_courier),
                              request.loop.order_items, request.loop.total_amount,
                              request.delivery_address))
                ELSE orders,
     couriers |-> IF request.pc \in {"courier_updated", "cart_deleted"}
                  THEN MarkBusy(request.available_courier)
                  ELSE couriers,
     carts |-> IF request.pc = "cart_deleted"
               THEN DeleteCart(carts, request.customer_id)
               ELSE carts]

\* conn.commit(): the connection's writes become the store's rows
Commit(conn) ==
    /\ inflight[conn].pc = "cart_deleted"
    /\ orders' = Uncommitted(conn).orders
    /\ couriers' = Uncommitted(conn).couriers
    /\ carts' = Uncommitted(conn).carts
    /\ inflight' = [inflight EXCEPT ![conn].pc = "committed"]
    /\ last' = Served("create_order", inflight[conn].order_id,
                      inflight[conn].cart_items, None, NoException)
    /\ UNCHANGED <<customers, menu_items>>

\* CloseConnection that commits what the connection has written so far
CloseConnectionCommitting(conn) == Uncommitted(conn)

\* "finally: conn.close()" with no commit before it: the connection's
\* uncommitted writes are rolled back and the store keeps its rows
CloseConnection(conn) ==
    [orders |-> orders, couriers |-> couriers, carts |-> carts]

\* An exception after the INSERT and before conn.commit(): it leaves the with
\* block through get_db_connection's except and finally.
Fail(conn) ==
    /\ inflight[conn].pc \in Writing
    /\ orders' = CloseConnection(conn).orders
    /\ couriers' = CloseConnection(conn).couriers
    /\ carts' = CloseConnection(conn).carts
    /\ inflight' = [inflight EXCEPT ![conn].pc = "failed"]
    /\ last' = Served("create_order", 0, inflight[conn].cart_items, None,
                      Exception("failed"))
    /\ UNCHANGED <<customers, menu_items>>

\* --------------------------------------------------------------- couriers

update_courier_status(courier_id, status) ==
    LET raised ==
            IF courier_id \notin DOMAIN couriers
            THEN HTTPException(404, "Courier not found")
            ELSE NoException
    IN  /\ couriers' = IF Returned(raised)
                       THEN UpdateCourier(couriers, courier_id, status)
                       ELSE couriers
        /\ last' = Served("update_courier_status", 0, <<>>, None, raised)
        /\ UNCHANGED <<inflight, customers, menu_items, carts, orders>>

\* ------------------------------------------------------- specifications

Addresses == {"addr"}
\* the customer's cart, if any, holds fewer than n lines
CartBelow(customer_id, n) ==
    customer_id \in DOMAIN carts => Len(carts[customer_id]) < n
\* order ids a request may name: the stored ones and ids of no stored row
OrderIds == 1..MaxOrders

\* Spec: the order and courier workflow.  Customer c1 puts one line in an empty
\* cart and orders; c2 never has a cart; courier9 is no stored courier.
Next ==
    \/ \E c \in {"c1"}, m \in {"m1"}, q \in {1} :
          CartBelow(c, 1) /\ add_to_cart(c, m, q)
    \/ \E c \in {"c1", "c2"}, a \in Addresses : create_order(c, a)
    \/ \E o \in OrderIds, s \in OrderStatus : update_order_status(o, s)
    \/ \E o \in OrderIds, k \in {"courier1", "courier2", "courier9"} :
          assign_courier_to_order(o, k)
    \/ \E k \in {"courier1", "courier2"}, s \in CourierStatus :
          update_courier_status(k, s)

Spec == Init /\ [][Next]_vars

\* SpecCart: carts of several lines and restaurants turned into orders while
\* menu rows disappear.  c1 draws lines from two restaurants, c2 from one; m9
\* is no stored menu item and c9 no stored customer.
CartRequests ==
    {<<"c1", "m1", 2>>, <<"c1", "m2", 1>>, <<"c1", "m3", 1>>, <<"c1", "m9", 1>>,
     <<"c2", "m3", 1>>, <<"c9", "m1", 1>>}
Deletable == {"m1", "m3"}

NextCart ==
    \/ \E r \in CartRequests :
          CartBelow(r[1], MaxCartLen) /\ add_to_cart(r[1], r[2], r[3])
    \/ \E c \in {"c1", "c2", "c9"} : clear_cart(c)
    \/ \E m \in Deletable : DeleteMenuItem(m)
    \/ \E c \in {"c1", "c2", "c9"}, a \in Addresses : create_order(c, a)

SpecCart == Init /\ [][NextCart]_vars

\* SpecAdd: carts filled by requests of any integer quantity.  CartItem declares
\* quantity: int, so a request may carry zero or a negative number.
Quantities == {-1, 0, 1, 2}

NextAdd ==
    \/ \E c \in {"c1", "c2", "c9"}, m \in {"m1", "m9"}, q \in Quantities :
          CartBelow(c, MaxCartLen) /\ add_to_cart(c, m, q)
    \/ \E c \in {"c1", "c2", "c9"} : clear_cart(c)

SpecAdd == Init /\ [][NextAdd]_vars

\* SpecFrame: orders created at one price and worked on while the menu's price
\* moves.  The prices are m1's price of the test data and another one, in cents.
Prices == {1299, 1399}

NextFrame ==
    \/ \E c \in {"c1"}, m \in {"m1"}, q \in {1} :
          CartBelow(c, 1) /\ add_to_cart(c, m, q)
    \/ \E c \in {"c1"}, a \in Addresses : create_order(c, a)
    \/ \E o \in OrderIds, s \in OrderStatus : update_order_status(o, s)
    \/ \E o \in OrderIds, k \in {"courier1", "courier2"} :
          assign_courier_to_order(o, k)
    \/ \E p \in Prices : UpdateMenuPrice("m1", p)

SpecFrame == Init /\ [][NextFrame]_vars

\* SpecCustomers: customers are registered and read back while carts and
\* orders are made.  Two requests carry the id c3, two the same email, one the
\* id and one the email of a customer of the test data.
CustomerRequests ==
    {Customer("c3", "Ann Lee", "ann@example.com"),
     Customer("c3", "Bob Ray", "bob@example.com"),
     Customer("c4", "Ann Lee", "ann@example.com"),
     Customer("c1", "Joe Doe", "joe@example.com"),
     Customer("c5", "John Doe", "john@example.com")}

NextCustomers ==
    \/ \E customer \in CustomerRequests : create_customer(customer)
    \/ \E c \in {"c1", "c3", "c4"} : get_customer(c)
    \/ \E c \in {"c1", "c3"}, m \in {"m1"}, q \in {1} :
          CartBelow(c, 1) /\ add_to_cart(c, m, q)
    \/ \E c \in {"c1", "c3"} : clear_cart(c)
    \/ \E c \in {"c1", "c3"}, a \in Addresses : create_order(c, a)

SpecCustomers == Init /\ [][NextCustomers]_vars

\* SpecSteps: two server processes on one database file, each serving
\* create_order statement by statement on its own connection: conn1 for
\* customer c1, conn2 for c2.  Carts are filled and courier2 goes offline by
\* requests served as one step while no connection holds the write lock.
Serves == {<<"conn1", "c1">>, <<"conn2", "c2">>}

NextSteps ==
    \/ \E c \in {"c1", "c2"}, m \in {"m1"}, q \in {1} :
          NoWriter /\ CartBelow(c, 1) /\ add_to_cart(c, m, q)
    \/ NoWriter /\ update_courier_status("courier2", "offline")
    \/ \E r \in Serves, a \in Addresses : SelectCart(r[1], r[2], a)
    \/ \E conn \in Connections : SelectMenuItems(conn)
    \/ \E conn \in Connections : SelectCourier(conn)
    \/ \E conn \in Connections : InsertOrder(conn)
    \/ \E conn \in Connections : DatabaseLocked(conn)
    \/ \E conn \in Connections : UpdateCourierRow(conn)
    \/ \E conn \in Connections : DeleteCartRow(conn)
    \/ \E conn \in Connections : Commit(conn)
    \/ \E conn \in Connections : Fail(conn)

SpecSteps == Init /\ [][NextSteps]_vars

\* ---------------------------------------------------------------- claims

Terminal == {"delivered", "cancelled"}

ServedOk(op) == last.op = op /\ last.status_code = 200

\* the order the last request created or wrote
LastOrder == orders[last.order_id]

\* the lines of a cart whose menu item is stored, in cart order
Resolvable(cart_items) ==
    SelectSeq(cart_items, LAMBDA item : item.menu_item_id \in DOMAIN menu_items)

\* the restaurants of the resolvable lines of a cart
RestaurantsOf(cart_items) ==
    {menu_items[cart_items[i].menu_item_id].restaurant_id :
        i \in {j \in 1..Len(cart_items) : cart_items[j].menu_item_id \in DOMAIN menu_items}}

\* the sum of price * quantity over the first n lines of a list of resolvable lines
RECURSIVE SumLines(_, _)
SumLines(lines, n) ==
    IF n = 0
    THEN 0
    ELSE SumLines(lines, n - 1)
           + menu_items[lines[n].menu_item_id].price * lines[n].quantity

\* C1: after a successful create_order the order's total_amount is the sum of
\* current price * quantity over the cart lines whose menu item is stored, the
\* order holds exactly those lines, each with item_total = its price * its
\* quantity, and a line whose menu item is gone makes no request fail: a cart
\* with a resolvable line, all of them of one restaurant, is turned into an order.
C1_OrderTotal ==
    last.op = "create_order" =>
        LET lines == Resolvable(last.cart_items) IN
        /\ (Len(lines) >= 1 /\ Cardinality(RestaurantsOf(last.cart_items)) = 1)
              => last.status_code = 200
        /\ last.status_code = 200 =>
              /\ LastOrder.total_amount = SumLines(lines, Len(lines))
              /\ Len(LastOrder.items) = Len(lines)
              /\ \A i \in 1..Len(lines) :
                    LET stored == LastOrder.items[i] IN
                    /\ stored.menu_item.id = lines[i].menu_item_id
                    /\ stored.quantity = lines[i].quantity
                    /\ stored.menu_item.price = menu_items[lines[i].menu_item_id].price
                    /\ stored.item_total = stored.menu_item.price * stored.quantity

\* an order was created from a cart with a line whose menu item is gone and a
\* line of quantity 2 that resolved
C1_Witness ==
    /\ ServedOk("create_order")
    /\ \E i \in 1..Len(last.cart_items) :
          last.cart_items[i].menu_item_id \notin DOMAIN menu_items
    /\ \E i \in 1..Len(LastOrder.items) : LastOrder.items[i].quantity = 2
    /\ LastOrder.total_amount > 0

\* C2: a courier is busy exactly when some stored order with a status other
\* than delivered or cancelled carries its id.
C2_BusyIffAssigned ==
    \A k \in DOMAIN couriers :
        couriers[k] = "busy" <=>
            \E o \in 1..Len(orders) :
                orders[o].courier_id = k /\ orders[o].status \notin Terminal

\* C3: a successful create_order with an available courier gives the order a
\* courier that was available before the call and is busy after it, every
\* other courier keeping its status; with no available courier the order's
\* courier_id is unset and no courier changes status.
C3_CourierOnCreate ==
    [][\A c \in {"c1", "c2"}, a \in Addresses :
          (/\ last'.op = "create_order"
           /\ last'.status_code = 200
           /\ create_order(c, a)) =>
             LET assigned == orders'[Len(orders')].courier_id IN
             IF \E k \in DOMAIN couriers : couriers[k] = "available"
             THEN /\ assigned \in DOMAIN couriers
                  /\ couriers[assigned] = "available"
                  /\ couriers'[assigned] = "busy"
                  /\ \A k \in DOMAIN couriers \ {assigned} : couriers'[k] = couriers[k]
             ELSE /\ assigned = None
                  /\ couriers' = couriers]_vars

\* an order was created with a courier, now busy, while the other courier is
\* offline, and an earlier order was created with no courier
C3_Witness ==
    /\ ServedOk("create_order")
    /\ last.order_id = 2
    /\ LastOrder.courier_id \in DOMAIN couriers
    /\ couriers[LastOrder.courier_id] = "busy"
    /\ \E k \in DOMAIN couriers : couriers[k] = "offline"
    /\ orders[1].courier_id = None

\* C4: after a successful create_order the customer has no cart lines left,
\* the created order is pending and every other customer's cart is as it was.
C4_CartClearedOnCreate ==
    [][\A c \in {"c1", "c2", "c9"}, a \in Addresses :
          (/\ last'.op = "create_order"
           /\ last'.status_code = 200
           /\ create_order(c, a)) =>
             /\ c \notin DOMAIN carts'
             /\ orders'[Len(orders')].status = "pending"
             /\ orders'[Len(orders')].customer_id = c
             /\ \A d \in (DOMAIN carts \cup DOMAIN carts') \ {c} :
                   /\ d \in DOMAIN carts
                   /\ d \in DOMAIN carts'
                   /\ carts'[d] = carts[d]]_vars

\* c1's cart was turned into a pending order and is gone while c2 still
\* holds a cart
C4_Witness ==
    /\ ServedOk("create_order")
    /\ LastOrder.customer_id = "c1"
    /\ LastOrder.status = "pending"
    /\ "c1" \notin DOMAIN carts
    /\ "c2" \in DOMAIN carts
    /\ carts["c2"] # <<>>

\* C5: create_order on a cart with two resolvable lines of different
\* restaurants answers with the mixed-restaurants error and writes nothing:
\* the carts, the orders and the couriers are as before.
C5_MixedCartConflict ==
    [][\A c \in {"c1", "c2", "c9"}, a \in Addresses :
          (/\ c \in DOMAIN carts
           /\ Cardinality(RestaurantsOf(carts[c])) >= 2
           /\ last'.op = "create_order"
           /\ create_order(c, a)) =>
             /\ last'.detail = "All items must be from the same restaurant"
             /\ carts' = carts
             /\ orders' = orders
             /\ couriers' = couriers]_vars

\* C6: create_order answers with the empty-cart error when the customer has no
\* cart or an empty one and with the no-valid-items error when no line of the
\* cart resolves, and in both cases writes nothing.
C6_EmptyCartInvalidState ==
    [][\A c \in {"c1", "c2", "c9"}, a \in Addresses :
          LET expected ==
                IF c \notin DOMAIN carts \/ carts[c] = <<>>
                THEN "Cart is empty"
                ELSE IF Resolvable(carts[c]) = <<>>
                THEN "No valid items in cart"
                ELSE "none"
          IN  (/\ expected # "none"
               /\ last'.op = "create_order"
               /\ create_order(c, a)) =>
                 /\ last'.detail = expected
                 /\ carts' = carts
                 /\ orders' = orders
                 /\ couriers' = couriers]_vars

\* C7: assign_courier_to_order naming a stored order and a stored courier that
\* is busy or offline answers with the courier-not-available error and leaves
\* every order and every courier as they were.
C7_AssignUnavailableConflict ==
    [][\A o \in OrderIds, k \in DOMAIN couriers :
          (/\ OrderExists(o)
           /\ couriers[k] \in {"busy", "offline"}
           /\ last'.op = "assign_courier_to_order"
           /\ assign_courier_to_order(o, k)) =>
             /\ last'.detail = "Courier is not available"
             /\ orders' = orders
             /\ couriers' = couriers]_vars

\* C8: after a successful assign_courier_to_order the order carries the new
\* courier, who is busy; a different courier the order carried before is
\* available; the order's status and the couriers other than these two are as
\* they were.
C8_AssignReleasesPrevious ==
    [][\A o \in OrderIds, k \in DOMAIN couriers :
          (/\ last'.op = "assign_courier_to_order"
           /\ last'.status_code = 200
           /\ last'.order_id = o
           /\ assign_courier_to_order(o, k)) =>
             LET previous == orders[o].courier_id IN
             /\ orders'[o].courier_id = k
             /\ couriers'[k] = "busy"
             /\ (previous \in DOMAIN couriers /\ previous # k)
                   => couriers'[previous] = "available"
             /\ orders'[o].status = orders[o].status
             /\ \A j \in DOMAIN couriers \ {k, previous} : couriers'[j] = couriers[j]]_vars

\* an order that carried a courier was given the other one: the new courier
\* is busy and the previous one available
C8_Witness ==
    /\ ServedOk("assign_courier_to_order")
    /\ last.row_courier_id \in DOMAIN couriers
    /\ last.row_courier_id # LastOrder.courier_id
    /\ couriers[LastOrder.courier_id] = "busy"
    /\ couriers[last.row_courier_id] = "available"

\* C9: update_order_status to delivered on an order with a courier makes that
\* courier available; to any other status it leaves every courier's status as
\* it was; the order's courier_id never changes.
C9_DeliveredReleasesCourier ==
    [][\A o \in OrderIds, s \in OrderStatus :
          (/\ OrderExists(o)
           /\ last'.op = "update_order_status"
           /\ last'.order_id = o
           /\ orders'[o].status = s
           /\ update_order_status(o, s)) =>
             LET assigned == orders[o].courier_id IN
             /\ (s = "delivered" /\ assigned \in DOMAIN couriers)
                   => couriers'[assigned] = "available"
             /\ s # "delivered" => couriers' = couriers
             /\ orders'[o].courier_id = assigned]_vars

\* an order with a courier was set to delivered and its courier is available,
\* while another order, cancelled, still has its courier busy
C9_Witness ==
    /\ ServedOk("update_order_status")
    /\ LastOrder.status = "delivered"
    /\ last.row_courier_id \in DOMAIN couriers
    /\ LastOrder.courier_id = last.row_courier_id
    /\ couriers[last.row_courier_id] = "available"
    /\ \E o \in 1..Len(orders) :
          /\ orders[o].status = "cancelled"
          /\ orders[o].courier_id \in DOMAIN couriers
          /\ couriers[orders[o].courier_id] = "busy"

\* C10: once an order is delivered or cancelled no step changes its status or
\* its courier_id.
C10_TerminalIsFinal ==
    [][\A o \in 1..Len(orders) :
          orders[o].status \in Terminal =>
             /\ orders'[o].status = orders[o].status
             /\ orders'[o].courier_id = orders[o].courier_id]_vars

\* C11: update_order_status on a stored order succeeds for every status value,
\* whatever status the order has (delivered and cancelled included), and the
\* stored status is then the requested one.
C11_AnyStatusAccepted ==
    [][\A o \in OrderIds, s \in OrderStatus :
          (/\ OrderExists(o)
           /\ last'.op = "update_order_status"
           /\ update_order_status(o, s)) =>
             /\ last'.status_code = 200
             /\ last'.order_id = o
             /\ orders'[o].status = s]_vars

\* a delivered order was set back to pending
C11_Witness ==
    /\ ServedOk("update_order_status")
    /\ last.row_status = "delivered"
    /\ LastOrder.status = "pending"

\* C12: in every reachable state every line of every stored order was taken
\* from a menu item of the order's restaurant: the restaurant_id in the line's
\* menu item snapshot is the order's restaurant_id.
C12_OneRestaurantPerOrder ==
    \A o \in 1..Len(orders) :
       \A i \in 1..Len(orders[o].items) :
          orders[o].items[i].menu_item.restaurant_id = orders[o].restaurant_id

\* an order of two different menu items was created
C12_Witness ==
    /\ ServedOk("create_order")
    /\ Len(LastOrder.items) = 2
    /\ LastOrder.items[1].menu_item.id # LastOrder.items[2].menu_item.id

\* C13: every line of every stored cart names a stored, available menu item and
\* has a quantity of at least 1; add_to_cart stores no line that breaks this,
\* whatever menu_item_id and integer quantity the request carries.
C13_CartLinesValid ==
    \A c \in DOMAIN carts :
       \A i \in 1..Len(carts[c]) :
          /\ carts[c][i].menu_item_id \in DOMAIN menu_items
          /\ menu_items[carts[c][i].menu_item_id].is_available
          /\ carts[c][i].quantity >= 1

\* the handlers of the order workflow
WorkflowOps == {"create_order", "assign_courier_to_order", "update_order_status"}

\* C14: a step of create_order, assign_courier_to_order or update_order_status
\* changes a courier's status only from available to busy or from busy to
\* available: it sets no courier to offline, and an offline courier stays
\* offline until update_courier_status is called.
C14_WorkflowCourierMoves ==
    [][last'.op \in WorkflowOps =>
          \A k \in DOMAIN couriers :
             couriers'[k] # couriers[k] =>
                <<couriers[k], couriers'[k]>> \in
                   {<<"available", "busy">>, <<"busy", "available">>}]_vars

\* C15: update_courier_status on a stored courier succeeds and sets its status
\* to the requested one, whatever its current status and whichever orders name
\* it, and leaves every order, every cart and every other courier as they were.
C15_CourierOverrideFrame ==
    [][\A k \in DOMAIN couriers, s \in CourierStatus :
          (/\ last'.op = "update_courier_status"
           /\ update_courier_status(k, s)) =>
             /\ last'.status_code = 200
             /\ couriers'[k] = s
             /\ \A j \in DOMAIN couriers \ {k} : couriers'[j] = couriers[j]
             /\ DOMAIN couriers' = DOMAIN couriers
             /\ orders' = orders
             /\ carts' = carts]_vars

\* a courier named by a pending order was set to offline while the other
\* courier stayed busy
C15_Witness ==
    /\ ServedOk("update_courier_status")
    /\ \E o \in 1..Len(orders) :
          /\ orders[o].status = "pending"
          /\ orders[o].courier_id \in DOMAIN couriers
          /\ couriers[orders[o].courier_id] = "offline"
          /\ \E j \in DOMAIN couriers \ {orders[o].courier_id} : couriers[j] = "busy"

\* what create_order writes of an order and no later request may touch
Snapshot(order) ==
    [items |-> order.items, total_amount |-> order.total_amount,
     customer_id |-> order.customer_id, restaurant_id |-> order.restaurant_id,
     delivery_address |-> order.delivery_address]

\* C16: a stored order keeps its line items, total_amount, customer_id,
\* restaurant_id and delivery address through every step: update_order_status
\* changes only the status of the order it names, assign_courier_to_order only
\* that order's courier_id, and a change of a menu price or a later
\* create_order changes no stored order at all.
C16_OrderSnapshotFrozen ==
    [][\A o \in 1..Len(orders) :
          /\ o \in 1..Len(orders')
          /\ Snapshot(orders'[o]) = Snapshot(orders[o])
          /\ last'.op = "update_order_status" =>
                /\ orders'[o].courier_id = orders[o].courier_id
                /\ o # last'.order_id => orders'[o] = orders[o]
          /\ last'.op = "assign_courier_to_order" =>
                /\ orders'[o].status = orders[o].status
                /\ o # last'.order_id => orders'[o] = orders[o]
          /\ last'.op \in {"UpdateMenuPrice", "create_order", "add_to_cart"} =>
                orders'[o] = orders[o]]_vars

\* two orders of the same item hold different prices, the second not the
\* menu's current one; the first has been delivered and both name one courier
C16_Witness ==
    /\ Len(orders) = 2
    /\ orders[1].items[1].menu_item.price # orders[2].items[1].menu_item.price
    /\ orders[1].total_amount # orders[2].total_amount
    /\ orders[2].items[1].menu_item.price # menu_items["m1"].price
    /\ orders[1].status = "delivered"
    /\ orders[1].courier_id = orders[2].courier_id

\* C17: create_customer with an id and an email that no stored customer has
\* succeeds and returns the submitted record, and from then on get_customer
\* with that id returns the submitted name and email, whatever requests were
\* served in between: the row is written as submitted, no step changes or
\* removes a stored row, and get_customer returns the stored row.
C17_CustomerRoundTrip ==
    [][/\ \A customer \in CustomerRequests :
             (/\ last'.op = "create_customer"
              /\ ~IntegrityError(customer)
              /\ create_customer(customer)) =>
                /\ last'.status_code = 200
                /\ last'.body = customer
                /\ customer.id \in DOMAIN customers'
                /\ customers'[customer.id].name = customer.name
                /\ customers'[customer.id].email = customer.email
       /\ \A c \in DOMAIN customers :
             /\ c \in DOMAIN customers'
             /\ customers'[c] = customers[c]
             /\ (last'.op = "get_customer" /\ get_customer(c)) =>
                   /\ last'.status_code = 200
                   /\ last'.body.id = c
                   /\ last'.body.name = customers[c].name
                   /\ last'.body.email = customers[c].email]_vars

\* customer c3, registered as Ann Lee, has put an order and is read back as
\* submitted; the request for c4 with the same email stored nothing
C17_Witness ==
    /\ ServedOk("get_customer")
    /\ last.body = Customer("c3", "Ann Lee", "ann@example.com")
    /\ \E o \in 1..Len(orders) : orders[o].customer_id = "c3"
    /\ "c4" \notin DOMAIN customers

\* C18: when two create_order requests for different customers with valid
\* carts run at the same time, each on its own connection, reading the
\* available courier and writing in separate steps, each commits its order with
\* the courier it read, whatever has become of that courier since; with one
\* courier available both orders get the same courier_id.
C18_StaleCourierWritten ==
    [][\A conn \in Connections :
          (inflight[conn].pc = "cart_deleted" /\ inflight'[conn].pc = "committed") =>
             LET request == inflight[conn] IN
             /\ Len(orders') = request.order_id
             /\ orders'[request.order_id].customer_id = request.customer_id
             /\ orders'[request.order_id].courier_id = request.available_courier
             /\ request.available_courier # None =>
                   couriers'[request.available_courier] = "busy"]_vars

\* both connections have committed; the orders of c1 and c2, both pending,
\* carry courier1, the only courier not offline
C18_Witness ==
    /\ \A conn \in Connections :
          /\ inflight[conn].pc = "committed"
          /\ inflight[conn].available_courier = "courier1"
    /\ Len(orders) = 2
    /\ orders[1].customer_id # orders[2].customer_id
    /\ orders[1].courier_id = "courier1"
    /\ orders[2].courier_id = "courier1"
    /\ orders[1].status = "pending" /\ orders[2].status = "pending"
    /\ couriers["courier2"] = "offline"

\* C19 as stated: when create_order fails after its INSERT into orders and
\* before the courier update and the cart deletion are complete, nothing is
\* rolled back and the written order stays in the store.
C19_WrittenOrderRemains ==
    \A conn \in Connections :
       (inflight[conn].pc = "failed" /\ inflight[conn].order_id # 0) =>
          /\ OrderExists(inflight[conn].order_id)
          /\ orders[inflight[conn].order_id].customer_id = inflight[conn].customer_id

\* C19, amended: a create_order that fails after its INSERT and before its
\* commit leaves orders, couriers and carts as they were, and an order enters
\* the store only in the step that also deletes its customer's cart and sets
\* its courier, if it has one, to busy.
C19_FailureRollsBack ==
    [][/\ \A conn \in Connections :
             (inflight[conn].pc \in Writing /\ inflight'[conn].pc = "failed") =>
                /\ orders' = orders
                /\ couriers' = couriers
                /\ carts' = carts
       /\ Len(orders') > Len(orders) =>
             LET order == orders'[Len(orders')] IN
             /\ order.customer_id \notin DOMAIN carts'
             /\ order.courier_id # None => couriers'[order.courier_id] = "busy"]_vars

\* a request failed after its courier update: no order is stored, its cart is
\* still there and the courier it had read is still available
C19_Witness ==
    \E conn \in Connections :
       /\ inflight[conn].pc = "failed"
       /\ inflight[conn].order_id # 0
       /\ orders = <<>>
       /\ inflight[conn].customer_id \in DOMAIN carts
       /\ inflight[conn].available_courier \in DOMAIN couriers
       /\ couriers[inflight[conn].available_courier] = "available"

\* C20: when create_order, update_order_status, assign_courier_to_order and
\* update_courier_status are served one after the other, every courier is the
\* courier_id of at most one order that is neither delivered nor cancelled.
C20_OneActiveOrderPerCourier ==
    \A k \in DOMAIN couriers :
       Cardinality({o \in 1..Len(orders) :
                       orders[o].courier_id = k /\ orders[o].status \notin Terminal}) <= 1

\* C21: in every reachable state the customer_id of every stored order is the
\* id of a stored customer, although create_order never looks the customer up:
\* every stored cart belongs to a stored customer, an order is made from a
\* stored cart only, and no handler deletes a customer.
C21_OrderCustomerExists ==
    /\ \A o \in 1..Len(orders) : orders[o].customer_id \in DOMAIN customers
    /\ \A c \in DOMAIN carts : c \in DOMAIN customers

\* c3, registered by create_customer, has an order and a new cart, while
\* create_order for a customer without a cart was just refused
C21_Witness ==
    /\ last.op = "create_order"
    /\ last.raised = "Cart is empty"
    /\ \E o \in 1..Len(orders) : orders[o].customer_id = "c3"
    /\ "c3" \in DOMAIN carts
====
